---- MODULE Spec2Model ----
(***************************************************************************)
(* Music-store customer support agent: the turn router (two variants: the  *)
(* AgentNodes nodes of agents/agent_nodes.py driven by app.py, and the     *)
(* app_graph of main.py with the refund_graph of agents/refund_agent.py)   *)
(* and the record store gateways they call (database/db_operations.py over *)
(* the DatabaseManager pool, and core/tools.py over its own connections).  *)
(* Money is in cents.  Python's Optional[T] is a set: {} is None and {v}   *)
(* is the value v.                                                         *)
(***************************************************************************)
EXTENDS Integers, Sequences, FiniteSets, TLC

VARIABLES
    variant,      \* which application runs: "agent_nodes" (app.py) or "main" (main.py)
    env,          \* the "env" entry of the config the graph is invoked with
    Invoice,      \* committed rows of table Invoice
    InvoiceLine,  \* committed rows of table InvoiceLine
    conn,         \* sqlite3 connections: open?, write transaction and its pending deletes
    pool,         \* DatabaseManager._conn_pool (idle connections, a stack)
    call,         \* per thread: the gateway call in progress
    faults,       \* number of injected storage failures so far
    refunded,     \* invoices whose non-simulated refund has returned its amount
    manager,      \* class DatabaseManager: _instance, _initialized, and where each
                  \* thread that constructs DatabaseManager() stands
    pc,           \* position of the session's turn in the router graph
    st,           \* the graph state of the running turn (models.State)
    tasks,        \* nodes of the running superstep that have not finished
    writes,       \* state updates of the finished nodes of the running superstep
    history,      \* st.session_state.messages of the chat front end: the roles of its
                  \* entries (their texts are only rendered)
    reply,        \* what the last turn returned to the front end
    turn,         \* number of turns started in the session
    seen,         \* fields the extractor has delivered so far in the session
    trace         \* what the running turn has done (nodes run, store calls made)

vars == <<variant, env, manager, Invoice, InvoiceLine, conn, pool, call, faults, refunded,
          pc, st, tasks, writes, history, reply, turn, seen, trace>>

storeVars  == <<Invoice, InvoiceLine, conn, pool, call, faults, refunded>>
routerVars == <<pc, st, tasks, writes, history, reply, turn, seen, trace>>

-----------------------------------------------------------------------------
(* Bounds of the model *)

MaxInvoice == 2     \* invoices in the store
MaxLine    == 2     \* invoice lines in the store
MaxCalls   == 3     \* gateway calls started when the gateways are driven directly
MaxFaults  == 1     \* injected storage failures
MaxTurns   == 2     \* turns of the session
MaxThreads == 6     \* threads inside execute_query when the pool is driven on its own

Threads  == {1, 2}
ConnIds  == {1, 2}

-----------------------------------------------------------------------------
(* Optional values *)

None == {}
Some(v) == {v}
Val(o) == CHOOSE v \in o : TRUE

\* Python truthiness of Optional[int], Optional[list] and Optional[str]
TruthyInt(o) == o # None /\ Val(o) # 0
TruthyList(o) == o # None /\ Val(o) # {}
TruthyStr(o) == o # None /\ Val(o) # <<>>

-----------------------------------------------------------------------------
(* The record store (Chinook schema, the part the gateways touch) *)

InvoiceIds == 1..MaxInvoice
LineIds    == 1..MaxLine

InvoiceOfLine(l) == ((l - 1) % MaxInvoice) + 1
UnitPriceOf(l)   == 100 * l - 1
QuantityOf(l)    == IF l % 2 = 0 THEN 2 ELSE 1

LineRow(l) == [InvoiceLineId |-> l, InvoiceId |-> InvoiceOfLine(l), TrackId |-> l,
               UnitPrice |-> UnitPriceOf(l), Quantity |-> QuantityOf(l)]

RECURSIVE SumAmount(_)
SumAmount(rows) ==
    IF rows = {} THEN 0
    ELSE LET r == CHOOSE x \in rows : TRUE
         IN  r.UnitPrice * r.Quantity + SumAmount(rows \ {r})

InvoiceDateOf(i) == IF i % 2 = 1 THEN "2024-01-01 00:00:00" ELSE "2024-02-02 00:00:00"

InvoiceRow(i) == [InvoiceId |-> i, CustomerId |-> 1, InvoiceDate |-> InvoiceDateOf(i),
                  Total |-> SumAmount({LineRow(l) : l \in {x \in LineIds : InvoiceOfLine(x) = i}})]

InitInvoice     == {InvoiceRow(i) : i \in InvoiceIds}
InitInvoiceLine == {LineRow(l) : l \in LineIds}

\* strings that SQL matches on are sequences of characters
Customer == {[CustomerId |-> 1, FirstName |-> <<"A", "n", "n">>, LastName |-> <<"L", "i">>,
              Phone |-> <<"5", "5">>]}
TrackNameOf(tr)  == IF tr % 2 = 1 THEN <<"B", "i", "k", "e">> ELSE <<"J", "a", "z", "z">>
AlbumTitleOf(tr) == <<"J", "a", "z", "z">>
ArtistNameOf(tr) == <<"Q">>

-----------------------------------------------------------------------------
(* sqlite3 connections.  A DELETE opens a write transaction implicitly and   *)
(* takes the file's RESERVED lock; its changes stay private to the           *)
(* connection until commit() and are dropped by rollback() or close().       *)

NoConn == [open |-> FALSE, writer |-> FALSE, dInv |-> {}, dLine |-> {}]
NewConn == [open |-> TRUE, writer |-> FALSE, dInv |-> {}, dLine |-> {}]

\* a store that rewrites the Total of an invoice when lines of it are deleted
ViewInvoiceRetotalled(c) ==
    {[r EXCEPT !.Total = SumAmount({x \in InvoiceLine : /\ x.InvoiceLineId \notin c.dLine
                                                        /\ x.InvoiceId = r.InvoiceId})] :
        r \in {x \in Invoice : x.InvoiceId \notin c.dInv}}

\* what a statement on connection record c reads
ViewInvoice(c)     == {r \in Invoice : r.InvoiceId \notin c.dInv}
ViewInvoiceLine(c) == {r \in InvoiceLine : r.InvoiceLineId \notin c.dLine}

\* another connection holds the write lock
LockedFor(cid) == \E o \in DOMAIN conn : o # cid /\ conn[o].open /\ conn[o].writer

-----------------------------------------------------------------------------
(* SQL statements of the gateways *)

Stmt(k, inv, lids, crit) == [k |-> k, inv |-> inv, lids |-> lids, crit |-> crit]

NoCrit == [first |-> None, last |-> None, phone |-> None, track |-> None,
           album |-> None, artist |-> None, date |-> None]

IsDelete(s) == s.k \in {"del_inv_lines", "del_inv", "del_lines"}

\* SELECT Total FROM Invoice WHERE InvoiceId = ?
SelTotal(c, inv) == {r.Total : r \in {x \in ViewInvoice(c) : x.InvoiceId = inv}}

\* SELECT SUM(UnitPrice * Quantity) FROM InvoiceLine WHERE InvoiceLineId IN (...)
\* the result is one row holding NULL when no line matches: None here
SelSum(c, lids) ==
    LET rows == {r \in ViewInvoiceLine(c) : r.InvoiceLineId \in lids}
    IN  IF rows = {} THEN None ELSE Some(SumAmount(rows))

\* what the refund adds to total_refund after a SELECT
Refunded(c, s) ==
    CASE s.k = "sel_total" ->
            IF SelTotal(c, s.inv) # {} THEN Val(SelTotal(c, s.inv)) ELSE 0
      [] s.k = "sel_sum" ->
            IF TruthyInt(SelSum(c, s.lids)) THEN Val(SelSum(c, s.lids)) ELSE 0
      [] OTHER -> 0

\* the connection after a statement that succeeded
AfterStmt(c, s) ==
    CASE s.k = "del_inv_lines" ->
            [c EXCEPT !.writer = TRUE,
                      !.dLine = @ \cup {r.InvoiceLineId :
                                          r \in {x \in ViewInvoiceLine(c) : x.InvoiceId = s.inv}}]
      [] s.k = "del_inv" ->
            [c EXCEPT !.writer = TRUE,
                      !.dInv = @ \cup {r.InvoiceId :
                                          r \in {x \in ViewInvoice(c) : x.InvoiceId = s.inv}}]
      [] s.k = "del_lines" ->
            [c EXCEPT !.writer = TRUE,
                      !.dLine = @ \cup {r.InvoiceLineId :
                                          r \in {x \in ViewInvoiceLine(c) : x.InvoiceLineId \in s.lids}}]
      [] OTHER -> c

\* SQL LOWER() and LIKE '%p%' on character sequences
LowerChar(ch) ==
    CASE ch = "A" -> "a" [] ch = "B" -> "b" [] ch = "J" -> "j"
      [] ch = "L" -> "l" [] ch = "Q" -> "q" [] OTHER -> ch
Lower(str) == [i \in 1..Len(str) |-> LowerChar(str[i])]
Contains(str, p) ==
    \E i \in 0..(Len(str) - Len(p)) : SubSeq(str, i + 1, i + Len(p)) = p

\* SQL date(): the day of a timestamp, NULL (None) for text that is no date
DateOf(txt) ==
    CASE txt \in {"2024-01-01", "2024-01-01 00:00:00"} -> Some("2024-01-01")
      [] txt \in {"2024-02-02", "2024-02-02 00:00:00"} -> Some("2024-02-02")
      [] OTHER -> None

\* the rows of InvoiceLine joined with Invoice, Customer, Track, Album and Artist
Joined(c) ==
    {[line |-> l, inv |-> i, cust |-> cu] :
        l \in ViewInvoiceLine(c), i \in ViewInvoice(c), cu \in Customer}
JoinedRows(c) == {j \in Joined(c) : j.line.InvoiceId = j.inv.InvoiceId
                                     /\ j.inv.CustomerId = j.cust.CustomerId}

PurchaseRecord(j) ==
    [invoice_line_id |-> j.line.InvoiceLineId,
     track_name |-> TrackNameOf(j.line.TrackId),
     artist_name |-> ArtistNameOf(j.line.TrackId),
     purchase_date |-> j.inv.InvoiceDate,
     quantity_purchased |-> Some(j.line.Quantity),
     price_per_unit |-> j.line.UnitPrice]

\* db_operations.lookup: a condition per truthy criterion, LIKE on the names;
\* its SELECT has no Quantity column
LikeCond(o, str) == TruthyStr(o) => Contains(Lower(str), Lower(Val(o)))
SelPurchasesLike(c, crit) ==
    {[PurchaseRecord(j) EXCEPT !.quantity_purchased = None] : j \in {x \in JoinedRows(c) :
        /\ LikeCond(crit.first, x.cust.FirstName)
        /\ LikeCond(crit.last, x.cust.LastName)
        /\ (TruthyStr(crit.phone) => Contains(x.cust.Phone, Val(crit.phone)))
        /\ LikeCond(crit.track, TrackNameOf(x.line.TrackId))
        /\ LikeCond(crit.album, AlbumTitleOf(x.line.TrackId))
        /\ LikeCond(crit.artist, ArtistNameOf(x.line.TrackId))
        /\ (crit.date # None /\ Val(crit.date) # "" =>
                DateOf(Val(crit.date)) # None
                /\ DateOf(x.inv.InvoiceDate) = DateOf(Val(crit.date)))}}

\* core.tools._lookup: the identity triple is always compared (= NULL matches no row),
\* the optional filters when truthy
EqCond(o, str) == o # None /\ Val(o) = str
SelPurchasesEq(c, crit) ==
    {PurchaseRecord(j) : j \in {x \in JoinedRows(c) :
        /\ EqCond(crit.first, x.cust.FirstName)
        /\ EqCond(crit.last, x.cust.LastName)
        /\ EqCond(crit.phone, x.cust.Phone)
        /\ (TruthyStr(crit.track) => Val(crit.track) = TrackNameOf(x.line.TrackId))
        /\ (TruthyStr(crit.album) => Val(crit.album) = AlbumTitleOf(x.line.TrackId))
        /\ (TruthyStr(crit.artist) => Val(crit.artist) = ArtistNameOf(x.line.TrackId))
        /\ (crit.date # None /\ Val(crit.date) # "" =>
                DateOf(Val(crit.date)) # None
                /\ DateOf(x.inv.InvoiceDate) = DateOf(Val(crit.date)))}}

\* the rows a SELECT of the purchase lookup returns
Selected(c, s) ==
    CASE s.k = "sel_purchases_like" -> SelPurchasesLike(c, s.crit)
      [] s.k = "sel_purchases_eq" -> SelPurchasesEq(c, s.crit)
      [] OTHER -> {}

-----------------------------------------------------------------------------
(* Gateway calls.  A call is the list of statements its code issues (the    *)
(* conditions that select them depend on the arguments only) and a cursor. *)

MaxConnections == 5

\* a refund that reads the amounts and deletes nothing
RefundStmtsReadOnly(inv, lids, mock) ==
    (IF inv # None THEN <<Stmt("sel_total", Val(inv), {}, NoCrit)>> ELSE <<>>)
    \o
    (IF TruthyList(lids) THEN <<Stmt("sel_sum", 0, Val(lids), NoCrit)>> ELSE <<>>)

\* database/db_operations.py refund: statements in program order
RefundStmtsPool(inv, lids, mock) ==
    (IF inv # None
        THEN <<Stmt("sel_total", Val(inv), {}, NoCrit)>>
             \o (IF ~mock THEN <<Stmt("del_inv_lines", Val(inv), {}, NoCrit),
                                 Stmt("del_inv", Val(inv), {}, NoCrit)>>
                          ELSE <<>>)
        ELSE <<>>)
    \o
    (IF TruthyList(lids)
        THEN <<Stmt("sel_sum", 0, Val(lids), NoCrit)>>
             \o (IF ~mock THEN <<Stmt("del_lines", 0, Val(lids), NoCrit)>> ELSE <<>>)
        ELSE <<>>)

\* a refund that reads both amounts before it deletes
RefundStmtsReadFirst(inv, lids, mock) ==
    (IF inv # None THEN <<Stmt("sel_total", Val(inv), {}, NoCrit)>> ELSE <<>>)
    \o
    (IF lids # None THEN <<Stmt("sel_sum", 0, Val(lids), NoCrit)>> ELSE <<>>)
    \o
    (IF inv # None /\ ~mock
        THEN <<Stmt("del_inv_lines", Val(inv), {}, NoCrit),
               Stmt("del_inv", Val(inv), {}, NoCrit)>>
        ELSE <<>>)
    \o
    (IF lids # None /\ ~mock THEN <<Stmt("del_lines", 0, Val(lids), NoCrit)>> ELSE <<>>)

\* core/tools.py _refund: statements in program order
RefundStmtsOwn(inv, lids, mock) ==
    (IF inv # None
        THEN <<Stmt("sel_total", Val(inv), {}, NoCrit)>>
             \o (IF ~mock THEN <<Stmt("del_inv_lines", Val(inv), {}, NoCrit),
                                 Stmt("del_inv", Val(inv), {}, NoCrit)>>
                          ELSE <<>>)
        ELSE <<>>)
    \o
    (IF lids # None
        THEN <<Stmt("sel_sum", 0, Val(lids), NoCrit)>>
             \o (IF ~mock THEN <<Stmt("del_lines", 0, Val(lids), NoCrit)>> ELSE <<>>)
        ELSE <<>>)

\* what the next execute_query of a thread that runs alone reads: the view of the
\* connection on top of the pool, or of a new connection
PoolView == IF pool # <<>> THEN conn[pool[Len(pool)]] ELSE NewConn

IdleCall == [status |-> "idle", op |-> "none", gw |-> "none", inv |-> None, lids |-> None,
             mock |-> FALSE, stmts |-> <<>>, idx |-> 1, phase |-> "get", c |-> 0,
             total |-> 0, rows |-> {}, err |-> "", after |-> {},
             preInvoice |-> {}, preLine |-> {}, solo |-> FALSE, n |-> 0]

\* refund(invoice_id, invoice_line_ids, mock) of db_operations: both None returns 0.0 at
\* once, and so does a call that issues no statement (no invoice and an empty list)
RefundCallPool(inv, lids, mock) ==
    [IdleCall EXCEPT !.status = IF RefundStmtsPool(inv, lids, mock) = <<>>
                                   THEN "returned" ELSE "running",
                     !.op = "refund", !.gw = "pool", !.inv = inv, !.lids = lids,
                     !.mock = mock, !.stmts = RefundStmtsPool(inv, lids, mock),
                     !.after = refunded, !.preInvoice = ViewInvoice(PoolView),
                     !.preLine = ViewInvoiceLine(PoolView)]

\* _refund(invoice_id, invoice_line_ids, mock) of core.tools: both None returns 0.0 at once
RefundCallOwn(inv, lids, mock) ==
    [IdleCall EXCEPT !.status = IF inv = None /\ lids = None THEN "returned" ELSE "running",
                     !.op = "refund", !.gw = "own", !.inv = inv, !.lids = lids,
                     !.mock = mock, !.stmts = RefundStmtsOwn(inv, lids, mock),
                     !.after = refunded, !.preInvoice = Invoice, !.preLine = InvoiceLine]

\* lookup(...) of db_operations (the body of the coroutine)
LookupCallPool(crit) ==
    [IdleCall EXCEPT !.status = "running", !.op = "lookup", !.gw = "pool",
                     !.stmts = <<Stmt("sel_purchases_like", 0, {}, crit)>>,
                     !.after = refunded]

\* _lookup(...) of core.tools
LookupCallOwn(crit) ==
    [IdleCall EXCEPT !.status = "running", !.op = "lookup", !.gw = "own",
                     !.stmts = <<Stmt("sel_purchases_eq", 0, {}, crit)>>,
                     !.after = refunded]

-----------------------------------------------------------------------------
(* DatabaseManager (database/db_manager.py): execute_query is get_connection, *)
(* then the statement and return_connection in the finally clause.  Another  *)
(* thread may run between the two.                                            *)

FreeConn == CHOOSE x \in DOMAIN conn : ~conn[x].open /\ \A y \in DOMAIN conn : ~conn[y].open => x <= y

\* get_connection: pop the pool or connect
GetConnection(t) ==
    /\ call[t].status = "running" /\ call[t].gw = "pool" /\ call[t].phase = "get"
    /\ IF pool # <<>>
          THEN /\ call' = [call EXCEPT ![t].c = pool[Len(pool)], ![t].phase = "run"]
               /\ pool' = SubSeq(pool, 1, Len(pool) - 1)
               /\ conn' = conn
          ELSE /\ \E x \in DOMAIN conn : ~conn[x].open
               /\ call' = [call EXCEPT ![t].c = FreeConn, ![t].phase = "run"]
               /\ conn' = [conn EXCEPT ![FreeConn] = NewConn]
               /\ pool' = pool
    /\ UNCHANGED <<variant, env, manager, Invoice, InvoiceLine, faults, refunded>>

\* a pool that keeps every connection it is handed
PoolAfterReturnUnbounded(c) == Append(pool, c)

\* return_connection: the connection goes back to the pool, or is closed when the
\* pool is full
PoolAfterReturn(c) == IF Len(pool) < MaxConnections THEN Append(pool, c) ELSE pool
ConnAfterReturn(cn, c) == IF Len(pool) < MaxConnections THEN cn ELSE [cn EXCEPT ![c] = NoConn]

\* the caller of execute_query goes on: the exception leaves the gateway call, or the
\* next statement follows, or the call returns
CallAfterQuery(c, err) ==
    [c EXCEPT !.c = 0, !.phase = "get", !.err = err,
              !.idx = IF err = "" THEN @ + 1 ELSE @,
              !.status = IF err # "" THEN "raised"
                         ELSE IF c.idx = Len(c.stmts) THEN "returned"
                         ELSE "running"]

\* execute_query: cursor.execute and fetchall succeed (no commit follows), and the
\* finally clause returns the connection
ExecuteQuery(t) ==
    /\ call[t].status = "running" /\ call[t].gw = "pool" /\ call[t].phase = "run"
    /\ LET s == call[t].stmts[call[t].idx]
           c == call[t].c
       IN  /\ ~(IsDelete(s) /\ LockedFor(c))
           /\ conn' = ConnAfterReturn([conn EXCEPT ![c] = AfterStmt(conn[c], s)], c)
           /\ pool' = PoolAfterReturn(c)
           /\ call' = [call EXCEPT ![t] =
                          CallAfterQuery([call[t] EXCEPT
                                             !.total = @ + Refunded(conn[c], s),
                                             !.rows = Selected(conn[c], s)], "")]
    /\ refunded' = IF /\ call[t].idx = Len(call[t].stmts)
                      /\ call[t].op = "refund" /\ ~call[t].mock /\ call[t].inv # None
                      THEN refunded \cup call[t].inv ELSE refunded
    /\ UNCHANGED <<variant, env, manager, Invoice, InvoiceLine, faults>>

\* execute_query: cursor.execute raises because another connection holds the write
\* lock; the finally clause returns the connection
ExecuteQueryLocked(t) ==
    /\ call[t].status = "running" /\ call[t].gw = "pool" /\ call[t].phase = "run"
    /\ IsDelete(call[t].stmts[call[t].idx]) /\ LockedFor(call[t].c)
    /\ conn' = ConnAfterReturn(conn, call[t].c)
    /\ pool' = PoolAfterReturn(call[t].c)
    /\ call' = [call EXCEPT ![t] = CallAfterQuery(call[t], "database is locked")]
    /\ UNCHANGED <<variant, env, manager, Invoice, InvoiceLine, faults, refunded>>

\* an execute_query that returns the connection only when the statement succeeds
ExecuteQueryFaultKeepsConn(t) ==
    /\ call[t].status = "running" /\ call[t].gw = "pool" /\ call[t].phase = "run"
    /\ faults < MaxFaults
    /\ faults' = faults + 1
    /\ call' = [call EXCEPT ![t] = CallAfterQuery(call[t], "disk I/O error")]
    /\ UNCHANGED <<variant, env, manager, Invoice, InvoiceLine, conn, pool, refunded>>

\* execute_query: cursor.execute raises for a storage failure; the finally clause
\* returns the connection
ExecuteQueryFault(t) ==
    /\ call[t].status = "running" /\ call[t].gw = "pool" /\ call[t].phase = "run"
    /\ faults < MaxFaults
    /\ faults' = faults + 1
    /\ conn' = ConnAfterReturn(conn, call[t].c)
    /\ pool' = PoolAfterReturn(call[t].c)
    /\ call' = [call EXCEPT ![t] = CallAfterQuery(call[t], "disk I/O error")]
    /\ UNCHANGED <<variant, env, manager, Invoice, InvoiceLine, refunded>>

-----------------------------------------------------------------------------
(* core/tools.py: a call works on its own connection (core/database.py        *)
(* get_db_connection); _refund commits at the end and rolls back on error.   *)

OwnConn(t) == IF conn[t].open THEN conn[t] ELSE NewConn

\* a statement succeeds; _lookup then closes the connection and returns its rows
OwnExecute(t) ==
    /\ call[t].status = "running" /\ call[t].gw = "own"
    /\ call[t].idx <= Len(call[t].stmts)
    /\ LET s == call[t].stmts[call[t].idx]
       IN  /\ ~(IsDelete(s) /\ LockedFor(t))
           /\ conn' = [conn EXCEPT ![t] = IF call[t].op = "lookup" THEN NoConn
                                          ELSE AfterStmt(OwnConn(t), s)]
           /\ call' = [call EXCEPT ![t].idx = @ + 1,
                                   ![t].c = t,
                                   ![t].total = @ + Refunded(OwnConn(t), s),
                                   ![t].rows = Selected(OwnConn(t), s),
                                   ![t].status = IF call[t].op = "lookup" THEN "returned" ELSE @]
    /\ UNCHANGED <<variant, env, manager, Invoice, InvoiceLine, pool, faults, refunded>>

\* a DELETE times out on the write lock: rollback, close, raise
OwnExecuteLocked(t) ==
    /\ call[t].status = "running" /\ call[t].gw = "own"
    /\ call[t].idx <= Len(call[t].stmts)
    /\ IsDelete(call[t].stmts[call[t].idx]) /\ LockedFor(t)
    /\ conn' = [conn EXCEPT ![t] = NoConn]
    /\ call' = [call EXCEPT ![t].status = "raised", ![t].err = "database is locked"]
    /\ UNCHANGED <<variant, env, manager, Invoice, InvoiceLine, pool, faults, refunded>>

\* a statement raises for a storage failure: rollback, close, raise
OwnExecuteFault(t) ==
    /\ call[t].status = "running" /\ call[t].gw = "own"
    /\ call[t].idx <= Len(call[t].stmts)
    /\ faults < MaxFaults
    /\ faults' = faults + 1
    /\ conn' = [conn EXCEPT ![t] = NoConn]
    /\ call' = [call EXCEPT ![t].status = "raised", ![t].err = "disk I/O error"]
    /\ UNCHANGED <<variant, env, manager, Invoice, InvoiceLine, pool, refunded>>

\* conn.commit(), conn.close(), return float(total_refund)
OwnCommit(t) ==
    /\ call[t].status = "running" /\ call[t].gw = "own" /\ call[t].op = "refund"
    /\ call[t].idx > Len(call[t].stmts)
    /\ Invoice' = ViewInvoice(conn[t])
    /\ InvoiceLine' = ViewInvoiceLine(conn[t])
    /\ conn' = [conn EXCEPT ![t] = NoConn]
    /\ call' = [call EXCEPT ![t].status = "returned"]
    /\ refunded' = IF ~call[t].mock /\ call[t].inv # None
                      THEN refunded \cup call[t].inv ELSE refunded
    /\ UNCHANGED <<variant, env, manager, pool, faults>>

\* one step of the gateway call of thread t
GatewayStep(t) ==
    \/ GetConnection(t)
    \/ ExecuteQuery(t)
    \/ ExecuteQueryLocked(t)
    \/ ExecuteQueryFault(t)
    \/ OwnExecute(t)
    \/ OwnExecuteLocked(t)
    \/ OwnExecuteFault(t)
    \/ OwnCommit(t)

-----------------------------------------------------------------------------
(* Messages and reply texts.  A text is its kind (which literal of the code *)
(* it is) and the values formatted into it; the text of a user or of the    *)
(* language model is the class default_response sorts it into.              *)

Text(kind) == [kind |-> kind, txt |-> "", amount |-> 0, names |-> {}, rows |-> {}, err |-> ""]
UserText(cls)  == [Text("user") EXCEPT !.txt = cls]
ModelText(cls) == [Text("model") EXCEPT !.txt = cls]

TextClasses == {"info_music", "greeting", "other"}

\* texts a user sends: the classes above, and a catalog question that has the word "album"
UserTextClasses == TextClasses \cup {"album"}

Msg(role, content) == [role |-> role, content |-> content]

\* agent_nodes.default_response tests on the lowered text: "information" and "music",
\* else one of "hello", "hi", "hey"
TextClass(content) ==
    IF content.kind \in {"user", "model"} THEN content.txt ELSE "other"

FieldNames == {"invoice_id", "invoice_line_ids", "customer_first_name", "customer_last_name",
               "customer_phone", "track_name", "album_title", "artist_name",
               "purchase_date_iso_8601"}
IdentityFields == {"customer_first_name", "customer_last_name", "customer_phone"}
TargetFields == {"invoice_id", "invoice_line_ids"}

NoFields == [k \in FieldNames |-> None]

\* Python truthiness of the value of field k
Truthy(k, o) ==
    CASE k = "invoice_id" -> TruthyInt(o)
      [] k = "invoice_line_ids" -> TruthyList(o)
      [] k = "purchase_date_iso_8601" -> o # None /\ Val(o) # ""
      [] OTHER -> TruthyStr(o)

\* models.State: the channels of the graph; fset tells whether followup holds a value
State(messages) == [messages |-> messages, followup |-> None, fset |-> FALSE, f |-> NoFields]

\* state.get(k)
Get(state, k) == state.f[k]

-----------------------------------------------------------------------------
(* What the external collaborators may answer *)

Ann == <<"A", "n", "n">>
Li  == <<"L", "i">>
Phone55 == <<"5", "5">>

WithTriple(v) == [v EXCEPT !["customer_first_name"] = Some(Ann),
                           !["customer_last_name"] = Some(Li),
                           !["customer_phone"] = Some(Phone55)]

\* records the field extractor may deliver
Extractions ==
    {NoFields,
     [NoFields EXCEPT !["invoice_line_ids"] = Some({})],
     [NoFields EXCEPT !["customer_first_name"] = Some(Ann)],
     [NoFields EXCEPT !["customer_last_name"] = Some(Li), !["customer_phone"] = Some(Phone55)],
     WithTriple(NoFields),
     [WithTriple(NoFields) EXCEPT !["track_name"] = Some(TrackNameOf(1)),
                                  !["album_title"] = Some(AlbumTitleOf(1)),
                                  !["artist_name"] = Some(ArtistNameOf(1)),
                                  !["purchase_date_iso_8601"] = Some("2024-01-01")]}
    \cup {[NoFields EXCEPT !["invoice_id"] = Some(i)] : i \in {1}}
    \cup {[NoFields EXCEPT !["invoice_line_ids"] = Some({l})] : l \in {1}}
    \cup {[NoFields EXCEPT !["invoice_id"] = Some(InvoiceOfLine(l)),
                           !["invoice_line_ids"] = Some({l})] : l \in {1}}
    \cup {[WithTriple(NoFields) EXCEPT !["invoice_id"] = Some(i)] : i \in {1}}

\* the dict of the extractor: the keys it holds (a key may hold null), and 'followup'
Parsed(keys, vals, followup) == [keys |-> keys, vals |-> vals, followup |-> followup]
NoParsed == Parsed({}, NoFields, None)

ParsedOutputs ==
    {Parsed({k \in FieldNames : v[k] # None}, v, None) : v \in Extractions}
    \cup {Parsed(FieldNames \cup {"followup"}, v, fu) :
             v \in Extractions, fu \in {None, Some(ModelText("other"))}}

\* parsed.get(k)
PGet(parsed, k) == IF k \in parsed.keys THEN parsed.vals[k] ELSE None

ExtractorOutcomes ==
    {[kind |-> "raise", parsed |-> NoParsed, txt |-> "other"],
     [kind |-> "nondict", parsed |-> NoParsed, txt |-> "other"]}
    \cup {[kind |-> "dict", parsed |-> p, txt |-> c] : p \in ParsedOutputs, c \in TextClasses}

\* answers of the intent classifier of agent_nodes (a dict with 'intent', or an exception)
ClassifierOutcomes == {"refund", "music_query", "hello", "unknown", "raise"}

-----------------------------------------------------------------------------
(* The nodes of agents/agent_nodes.py *)

\* a node's returned dict is written to the channels: a key that is present overwrites
Merge(state, parsed) ==
    [state EXCEPT !.f = [k \in FieldNames |->
                            IF k \in parsed.keys THEN parsed.vals[k] ELSE state.f[k]],
                  !.followup = IF "followup" \in parsed.keys THEN parsed.followup ELSE @,
                  !.fset = @ \/ "followup" \in parsed.keys]

AddMessage(state, content) ==
    [state EXCEPT !.messages = Append(@, Msg("assistant", content))]

\* a terminal node: the reply is appended and set as followup
Terminal(state, content) ==
    [AddMessage(state, content) EXCEPT !.followup = Some(content), !.fset = TRUE]

\* build_graph (imported by app.py, not in the sources): the node that follows a node
\* of AgentNodes is the one its "next" entry names
BuildGraphEdge(next) == next

\* route_request: the next-step selector
RouteNext(intent) ==
    CASE intent = "refund" -> "gather_info"
      [] intent = "music_query" -> "process_music_query"
      [] OTHER -> "default_response"

\* the selector with the lookup test ahead of the refund test
NextStepLookupFirst(parsed) ==
    IF \A k \in IdentityFields : Truthy(k, PGet(parsed, k)) THEN "process_lookup"
    ELSE IF \E k \in TargetFields : Truthy(k, PGet(parsed, k)) THEN "process_refund"
    ELSE "default_response"

\* gather_info: "Determine next step"
NextStep(parsed) ==
    IF \E k \in TargetFields : Truthy(k, PGet(parsed, k)) THEN "process_refund"
    ELSE IF \A k \in IdentityFields : Truthy(k, PGet(parsed, k)) THEN "process_lookup"
    ELSE "default_response"

\* gather_info: the new state and the next step
GatherInfo(state, o) ==
    IF o.kind = "raise"
       THEN [state |-> Terminal(state, Text("gather_error")), next |-> "END"]
       ELSE LET parsed == IF o.kind = "dict" THEN o.parsed ELSE NoParsed
                message == IF o.kind = "dict" THEN ModelText(o.txt) ELSE Text("gather_trouble")
            IN  [state |-> AddMessage(Merge(state, parsed), message),
                 next |-> NextStep(parsed)]

\* process_refund: nothing to refund
RefundNothing(state) == ~(TruthyInt(Get(state, "invoice_id"))
                          \/ TruthyList(Get(state, "invoice_line_ids")))

\* process_refund: the reply for the outcome of refund()
RefundResult(c) ==
    IF c.status = "returned" THEN [Text("refund_done") EXCEPT !.amount = c.total]
    ELSE [Text("refund_error") EXCEPT !.err = c.err]

\* process_lookup: the required fields that are missing
MissingFields(state) == {k \in IdentityFields : ~Truthy(k, Get(state, k))}

\* process_lookup: lookup() is called with the keyword purchase_date_iso_8601, which
\* db_operations.lookup does not have: the call raises TypeError before any query
ProcessLookup(state) ==
    IF MissingFields(state) # {}
       THEN Terminal(state, [Text("lookup_need") EXCEPT !.names = MissingFields(state)])
       ELSE Terminal(state, [Text("lookup_error") EXCEPT !.err = "unexpected keyword argument"])

\* default_response
DefaultResponse(state) ==
    LET cls == IF state.messages # <<>>
                  THEN TextClass(state.messages[Len(state.messages)].content) ELSE "other"
    IN  Terminal(state, CASE cls = "info_music" -> Text("default_info")
                          [] cls = "greeting" -> Text("default_hello")
                          [] OTHER -> [Text("default_other") EXCEPT !.names = IdentityFields])

\* agent_nodes.compile_followup
CompileFollowupNodes(state) ==
    IF ~(state.followup # None /\ Val(state.followup).kind # "empty")
       THEN [state EXCEPT !.followup = Some(state.messages[Len(state.messages)].content),
                          !.fset = TRUE]
       ELSE state

-----------------------------------------------------------------------------
(* A turn of the session *)

NoTrace == [nodes |-> <<>>,          \* the nodes run, in order
            intent |-> "none",       \* what the intent classifier answered
            decision |-> "none",     \* the step gather_info selected
            parsed |-> NoFields,     \* parsed.get(k) of the extractor's dict, per field
            lookups |-> {},          \* criteria the lookup gateway was called with
            catalog |-> {},          \* catalog lookups process_music_query called
            refundRan |-> FALSE,     \* the refund step has finished
            refundAbsent |-> FALSE,  \* ... and had neither invoice id nor line ids
            refundQueries |-> 0,     \* ... statements it issued
            refundText |-> Text("none")]

\* the reply of the last turn, and the replies the session has seen in turns whose
\* classifier failed or answered outside its labels (fallbacks) or answered "hello"
NoReply == [status |-> "none", v |-> None, fallbacks |-> {}, greetings |-> {}]

FailedIntents == {"unknown", "raise"}

Ran(tr, node) == [tr EXCEPT !.nodes = Append(@, node)]

\* statements a finished gateway call has issued
QueriesIssued(c) == IF c.status = "raised" THEN c.idx ELSE c.idx - 1

\* app.py main / main.py chat tab: the prompt is appended to the chat history and the
\* graph is invoked on a state holding this message only
UserMessage ==
    /\ pc = "idle" /\ turn < MaxTurns
    /\ \E cls \in UserTextClasses :
          /\ history' = Append(history, "user")
          /\ st' = IF variant = "agent_nodes"
                      THEN [State(<<Msg("user", UserText(cls))>>) EXCEPT !.fset = TRUE]
                      ELSE State(<<Msg("user", UserText(cls))>>)
    /\ pc' = "route"
    /\ turn' = turn + 1
    /\ trace' = NoTrace
    /\ reply' = [reply EXCEPT !.status = "running", !.v = None]
    /\ UNCHANGED <<variant, env, manager, storeVars, tasks, writes, seen>>

\* AgentNodes.route_request
RouteRequest ==
    /\ variant = "agent_nodes" /\ pc = "route"
    /\ \E intent \in ClassifierOutcomes :
          /\ pc' = BuildGraphEdge(RouteNext(intent))
          /\ trace' = [Ran(trace, "route") EXCEPT !.intent = intent]
    /\ UNCHANGED <<variant, env, manager, storeVars, st, tasks, writes, history, reply, turn, seen>>

\* AgentNodes.gather_info
GatherInfoNode ==
    /\ variant = "agent_nodes" /\ pc = "gather_info"
    /\ \E o \in ExtractorOutcomes :
          /\ st' = GatherInfo(st, o).state
          /\ pc' = BuildGraphEdge(GatherInfo(st, o).next)
          /\ trace' = [Ran(trace, "gather_info") EXCEPT
                          !.decision = IF o.kind = "raise" THEN "error"
                                       ELSE GatherInfo(st, o).next,
                          !.parsed = [k \in FieldNames |-> PGet(o.parsed, k)]]
          /\ seen' = seen \cup {k \in FieldNames : PGet(o.parsed, k) # None}
    /\ UNCHANGED <<variant, env, manager, storeVars, tasks, writes, history, reply, turn>>

\* AgentNodes.process_refund: without a target the reply asks for one and refund() is
\* not called; otherwise refund(invoice_id, invoice_line_ids), mock left at False
ProcessRefund ==
    /\ variant = "agent_nodes" /\ pc = "process_refund"
    /\ IF RefundNothing(st)
          THEN /\ st' = Terminal(st, Text("refund_ask"))
               /\ pc' = "END"
               /\ trace' = [Ran(trace, "process_refund") EXCEPT
                               !.refundRan = TRUE,
                               !.refundAbsent = (Get(st, "invoice_id") = None
                                                 /\ Get(st, "invoice_line_ids") = None),
                               !.refundText = Text("refund_ask")]
               /\ call' = call
          ELSE /\ call' = [call EXCEPT ![1] = RefundCallPool(Get(st, "invoice_id"),
                                                 Get(st, "invoice_line_ids"), FALSE)]
               /\ pc' = "process_refund.refund"
               /\ UNCHANGED <<st, trace>>
    /\ UNCHANGED <<variant, env, manager, Invoice, InvoiceLine, conn, pool, faults, refunded,
                   tasks, writes, history, reply, turn, seen>>

\* AgentNodes.process_refund: refund() returned or raised
ProcessRefundReturn ==
    /\ variant = "agent_nodes" /\ pc = "process_refund.refund"
    /\ call[1].status \in {"returned", "raised"}
    /\ st' = Terminal(st, RefundResult(call[1]))
    /\ pc' = "END"
    /\ trace' = [Ran(trace, "process_refund") EXCEPT
                    !.refundRan = TRUE, !.refundAbsent = FALSE,
                    !.refundQueries = QueriesIssued(call[1]),
                    !.refundText = RefundResult(call[1])]
    /\ call' = [call EXCEPT ![1] = IdleCall]
    /\ UNCHANGED <<variant, env, manager, Invoice, InvoiceLine, conn, pool, faults, refunded,
                   tasks, writes, history, reply, turn, seen>>

\* process_lookup: the criteria it hands to lookup(); the date is read from the key
\* purchase_date, which the state does not have
ProcessLookupArgs(state) ==
    [first |-> Get(state, "customer_first_name"), last |-> Get(state, "customer_last_name"),
     phone |-> Get(state, "customer_phone"), track |-> Get(state, "track_name"),
     album |-> Get(state, "album_title"), artist |-> Get(state, "artist_name"),
     date |-> None]

\* AgentNodes.process_lookup
ProcessLookupNode ==
    /\ variant = "agent_nodes" /\ pc = "process_lookup"
    /\ st' = ProcessLookup(st)
    /\ pc' = "END"
    /\ trace' = Ran(trace, "process_lookup")
    /\ UNCHANGED <<variant, env, manager, storeVars, tasks, writes, history, reply, turn, seen>>

\* process_music_query: lookup_track and then lookup_album are called with the whole user
\* message as artist_name, whatever the message says; lookup_artist is never called.  A
\* call that raises (the tool object refusing the call, or the store) ends in the except
\* branch, after no lookup, after lookup_track, or after both
MusicQueryOutcomes ==
    {[kind |-> k, lookups |-> {"track", "album"}] : k \in {"music_rows", "music_none"}}
    \cup {[kind |-> "music_error", lookups |-> l] : l \in {{}, {"track"}, {"track", "album"}}}

\* AgentNodes.process_music_query: the reply for what the catalog tools give
\* (rows, no rows, or an exception)
ProcessMusicQuery ==
    /\ variant = "agent_nodes" /\ pc = "process_music_query"
    /\ \E o \in MusicQueryOutcomes :
          /\ st' = Terminal(st, Text(o.kind))
          /\ trace' = [Ran(trace, "process_music_query") EXCEPT !.catalog = o.lookups]
    /\ pc' = "END"
    /\ UNCHANGED <<variant, env, manager, storeVars, tasks, writes, history, reply, turn, seen>>

\* AgentNodes.default_response
DefaultResponseNode ==
    /\ variant = "agent_nodes" /\ pc = "default_response"
    /\ st' = DefaultResponse(st)
    /\ pc' = "END"
    /\ trace' = Ran(trace, "default_response")
    /\ UNCHANGED <<variant, env, manager, storeVars, tasks, writes, history, reply, turn, seen>>

\* result.get("followup", default): the default only when the channel holds no value
ResultFollowup(state, default) == IF state.fset THEN state.followup ELSE Some(default)

\* app.py process_message returns, main() shows the response and appends it to the history
ProcessMessageReturn ==
    /\ variant = "agent_nodes" /\ pc = "END"
    /\ reply' = [status |-> "returned",
                 v |-> ResultFollowup(st, Text("app_default")),
                 fallbacks |-> IF trace.intent \in FailedIntents
                                  THEN reply.fallbacks \cup ResultFollowup(st, Text("app_default"))
                                  ELSE reply.fallbacks,
                 greetings |-> IF trace.intent = "hello"
                                  THEN reply.greetings \cup ResultFollowup(st, Text("app_default"))
                                  ELSE reply.greetings]
    /\ history' = Append(history, "assistant")
    /\ pc' = "idle"
    /\ st' = State(<<>>)
    /\ trace' = [NoTrace EXCEPT !.nodes = trace.nodes]
    /\ UNCHANGED <<variant, env, manager, storeVars, tasks, writes, turn, seen>>

-----------------------------------------------------------------------------
(* main.py app_graph and the refund_graph of agents/refund_agent.py.  A node  *)
(* that returns Command(goto=...) and also has edges added with add_edge is   *)
(* followed by the goto node and by the targets of its edges: after           *)
(* gather_info both refund_action and lookup_action run, in one superstep.    *)

MainClassifierOutcomes == {"refund", "question_answering", "unknown", "raise"}

MainExtractorOutcomes ==
    {[kind |-> "raise", parsed |-> NoParsed, txt |-> "other"]}
    \cup {[kind |-> "dict", parsed |-> p, txt |-> "other"] : p \in ParsedOutputs}

\* main.intent_classifier: the update and the goto
IntentClassifier(state, intent) ==
    IF intent = "raise"
       THEN [state |-> Terminal(state, Text("classifier_sorry")), goto |-> "END"]
       ELSE [state |-> state,
             goto |-> IF intent = "refund" THEN "refund_agent" ELSE "qa_agent"]

\* refund_agent.gather_info: "Determine next action and prepare response"
Goto(parsed) ==
    IF \E k \in TargetFields : Truthy(k, PGet(parsed, k)) THEN "refund_action"
    ELSE IF \A k \in {"customer_name", "phone"} : Truthy(k, PGet(parsed, k)) THEN "lookup_action"
    ELSE "END"

GotoResponse(goto) ==
    CASE goto = "refund_action" -> Text("refund_ack")
      [] goto = "lookup_action" -> Text("lookup_ack")
      [] OTHER -> [Text("need_details") EXCEPT !.names = IdentityFields]

\* refund_agent.gather_info: the Command it returns
GatherInfoCommand(state, o) ==
    IF o.kind = "raise"
       THEN [state |-> AddMessage(state, [Text("gather_trouble_name_phone")
                                            EXCEPT !.names = IdentityFields]),
             goto |-> "END"]
       ELSE [state |-> AddMessage(Merge(state, o.parsed), GotoResponse(Goto(o.parsed))),
             goto |-> Goto(o.parsed)]

\* the nodes that run after gather_info: its goto and the targets of its edges
AfterGatherInfo(goto) == ({goto} \ {"END"}) \cup {"refund_action", "lookup_action"}

\* the env of the config of main.py and the one evaluation.py run_graph passes
MainEnv == "prod"
EvalEnv == "test"

\* refund_agent.refund: mock is on when the configured env is "test"
Mock(e) == e = "test"

\* refund_agent.refund: the reply
RefundActionText(c) == [Text("refunded_total") EXCEPT !.amount = c.total]

\* refund_agent.lookup: the criteria passed to _lookup and the reply
LookupArgs(state) ==
    [first |-> Get(state, "customer_first_name"), last |-> Get(state, "customer_last_name"),
     phone |-> Get(state, "customer_phone"), track |-> Get(state, "track_name"),
     album |-> Get(state, "album_title"), artist |-> Get(state, "artist_name"),
     date |-> Get(state, "purchase_date_iso_8601")]

LookupActionText(c) ==
    IF c.rows = {} THEN Text("no_purchases_found")
    ELSE [Text("purchases_found") EXCEPT !.rows = {r.invoice_line_id : r \in c.rows}]

\* main.compile_followup
CompileFollowup(state) ==
    IF /\ ~(state.followup # None /\ Val(state.followup).kind # "empty")
       /\ state.messages # <<>>
       THEN [state EXCEPT !.followup = Some(state.messages[Len(state.messages)].content),
                          !.fset = TRUE]
       ELSE [state EXCEPT !.followup = Some(Text("went_wrong")), !.fset = TRUE]

\* main.intent_classifier
IntentClassifierNode ==
    /\ variant = "main" /\ pc = "route"
    /\ \E intent \in MainClassifierOutcomes :
          /\ st' = IntentClassifier(st, intent).state
          /\ pc' = IntentClassifier(st, intent).goto
          /\ trace' = [Ran(trace, "intent_classifier") EXCEPT !.intent = intent]
    /\ UNCHANGED <<variant, env, manager, storeVars, tasks, writes, history, reply, turn, seen>>

\* refund_graph: gather_info
GatherInfoAction ==
    /\ variant = "main" /\ pc = "refund_agent"
    /\ \E o \in MainExtractorOutcomes :
          /\ st' = GatherInfoCommand(st, o).state
          /\ tasks' = AfterGatherInfo(GatherInfoCommand(st, o).goto)
          /\ trace' = [Ran(trace, "gather_info") EXCEPT
                          !.decision = IF o.kind = "raise" THEN "error"
                                       ELSE GatherInfoCommand(st, o).goto,
                          !.parsed = [k \in FieldNames |-> PGet(o.parsed, k)]]
          /\ seen' = seen \cup {k \in FieldNames : PGet(o.parsed, k) # None}
    /\ pc' = "refund_agent.superstep"
    /\ writes' = <<>>
    /\ UNCHANGED <<variant, env, manager, storeVars, history, reply, turn>>

\* refund_graph: refund_action calls _refund
RefundActionCall ==
    /\ variant = "main" /\ pc = "refund_agent.superstep"
    /\ "refund_action" \in tasks /\ call[1].status = "idle"
    /\ call' = [call EXCEPT ![1] = RefundCallOwn(Get(st, "invoice_id"),
                                                 Get(st, "invoice_line_ids"), Mock(env))]
    /\ UNCHANGED <<variant, env, manager, Invoice, InvoiceLine, conn, pool, faults, refunded, routerVars>>

\* refund_graph: refund_action returns its message; an exception of _refund leaves the node
RefundActionReturn ==
    /\ variant = "main" /\ pc = "refund_agent.superstep"
    /\ "refund_action" \in tasks /\ call[1].status \in {"returned", "raised"}
    /\ tasks' = tasks \ {"refund_action"}
    /\ writes' = IF call[1].status = "returned"
                    THEN Append(writes, RefundActionText(call[1]))
                    ELSE Append(writes, Text("raised"))
    /\ trace' = [Ran(trace, "refund_action") EXCEPT
                    !.refundRan = TRUE,
                    !.refundAbsent = (Get(st, "invoice_id") = None
                                      /\ Get(st, "invoice_line_ids") = None),
                    !.refundQueries = QueriesIssued(call[1]),
                    !.refundText = IF call[1].status = "returned"
                                      THEN RefundActionText(call[1]) ELSE Text("raised")]
    /\ call' = [call EXCEPT ![1] = IdleCall]
    /\ UNCHANGED <<variant, env, manager, Invoice, InvoiceLine, conn, pool, faults, refunded,
                   pc, st, history, reply, turn, seen>>

\* refund_graph: lookup_action calls _lookup
LookupActionCall ==
    /\ variant = "main" /\ pc = "refund_agent.superstep"
    /\ "lookup_action" \in tasks /\ call[2].status = "idle"
    /\ call' = [call EXCEPT ![2] = LookupCallOwn(LookupArgs(st))]
    /\ trace' = [trace EXCEPT !.lookups = @ \cup {LookupArgs(st)}]
    /\ UNCHANGED <<variant, env, manager, Invoice, InvoiceLine, conn, pool, faults, refunded,
                   pc, st, tasks, writes, history, reply, turn, seen>>

\* refund_graph: lookup_action returns its message; an exception of _lookup leaves the node
LookupActionReturn ==
    /\ variant = "main" /\ pc = "refund_agent.superstep"
    /\ "lookup_action" \in tasks /\ call[2].status \in {"returned", "raised"}
    /\ tasks' = tasks \ {"lookup_action"}
    /\ writes' = IF call[2].status = "returned"
                    THEN Append(writes, LookupActionText(call[2]))
                    ELSE Append(writes, Text("raised"))
    /\ trace' = Ran(trace, "lookup_action")
    /\ call' = [call EXCEPT ![2] = IdleCall]
    /\ UNCHANGED <<variant, env, manager, Invoice, InvoiceLine, conn, pool, faults, refunded,
                   pc, st, history, reply, turn, seen>>

RECURSIVE AddMessages(_, _)
AddMessages(state, texts) ==
    IF texts = <<>> THEN state
    ELSE AddMessages(AddMessage(state, Head(texts)), Tail(texts))

\* refund_graph: the superstep ends: the messages of its nodes are added (the order of
\* the writes of parallel nodes is left open), or the exception of a node is raised
SuperstepEnd ==
    /\ variant = "main" /\ pc = "refund_agent.superstep"
    /\ tasks = {}
    /\ IF \E i \in 1..Len(writes) : writes[i].kind = "raised"
          THEN pc' = "raised" /\ st' = st
          ELSE pc' = "compile_followup" /\ st' = AddMessages(st, writes)
    /\ writes' = <<>>
    /\ UNCHANGED <<variant, env, manager, storeVars, tasks, history, reply, turn, seen, trace>>

\* qa_graph: the react agent answers with a message, or its model call raises
QaAgent ==
    /\ variant = "main" /\ pc = "qa_agent"
    /\ \/ \E c \in TextClasses : st' = AddMessage(st, ModelText(c)) /\ pc' = "compile_followup"
       \/ st' = AddMessage(st, Text("empty")) /\ pc' = "compile_followup"
       \/ st' = st /\ pc' = "raised"
    /\ trace' = Ran(trace, "qa_agent")
    /\ UNCHANGED <<variant, env, manager, storeVars, tasks, writes, history, reply, turn, seen>>

\* main.compile_followup
CompileFollowupNode ==
    /\ variant = "main" /\ pc = "compile_followup"
    /\ st' = CompileFollowup(st)
    /\ pc' = "END"
    /\ trace' = Ran(trace, "compile_followup")
    /\ UNCHANGED <<variant, env, manager, storeVars, tasks, writes, history, reply, turn, seen>>

\* main.py chat tab: the response is shown and appended to the chat history
MainReturn ==
    /\ variant = "main" /\ pc = "END"
    /\ reply' = [status |-> "returned",
                 v |-> ResultFollowup(st, Text("main_default")),
                 fallbacks |-> IF trace.intent \in FailedIntents
                                  THEN reply.fallbacks \cup ResultFollowup(st, Text("main_default"))
                                  ELSE reply.fallbacks,
                 greetings |-> IF trace.intent = "hello"
                                  THEN reply.greetings \cup ResultFollowup(st, Text("main_default"))
                                  ELSE reply.greetings]
    /\ history' = Append(history, "assistant")
    /\ pc' = "idle"
    /\ st' = State(<<>>)
    /\ trace' = [NoTrace EXCEPT !.nodes = trace.nodes]
    /\ UNCHANGED <<variant, env, manager, storeVars, tasks, writes, turn, seen>>

\* main.py chat tab: app_graph.invoke raised; nothing is appended for the assistant
MainRaise ==
    /\ variant = "main" /\ pc = "raised"
    /\ reply' = [reply EXCEPT !.status = "raised", !.v = None]
    /\ pc' = "idle"
    /\ st' = State(<<>>)
    /\ trace' = [NoTrace EXCEPT !.nodes = trace.nodes]
    /\ UNCHANGED <<variant, env, manager, storeVars, tasks, writes, history, turn, seen>>

-----------------------------------------------------------------------------
(* DatabaseManager.__new__ and __init__ (database/db_manager.py).  Thread 0   *)
(* imports the module, whose last line constructs the global db_manager; the  *)
(* other threads construct DatabaseManager() themselves.                      *)

Importer     == 0
Constructors == 0..MaxThreads

NoManager ==
    [instance |-> FALSE,      \* _instance is not None
     initialized |-> FALSE,   \* _instance._initialized
     created |-> 0,           \* instances made by super().__new__
     inits |-> 0,             \* times db_path and _initialized were set
     ensures |-> 0,           \* times _ensure_database_exists was run
     at |-> [t \in Constructors |-> "start"]]

\* the class once the module has been imported: the global instance exists
ManagerImported ==
    [instance |-> TRUE, initialized |-> TRUE, created |-> 1, inits |-> 1, ensures |-> 1,
     at |-> [t \in Constructors |-> IF t = Importer THEN "done" ELSE "start"]]

\* threads that construct at any time, the import of the module over or not
ImportedOrNot == TRUE

\* a thread can name DatabaseManager only when the import of the module, which runs
\* db_manager = DatabaseManager(), is over
Imported == manager.at[Importer] = "done"

\* __new__: under _lock, the instance is made when there is none
DmNew(t) ==
    /\ manager.at[t] = "start"
    /\ t = Importer \/ Imported
    /\ manager' = IF manager.instance
                      THEN [manager EXCEPT !.at[t] = "init"]
                      ELSE [manager EXCEPT !.instance = TRUE, !.initialized = FALSE,
                                           !.created = @ + 1, !.at[t] = "init"]
    /\ UNCHANGED <<variant, env, storeVars, routerVars>>

\* __init__: if self._initialized: return
DmInit(t) ==
    /\ manager.at[t] = "init"
    /\ manager' = [manager EXCEPT !.at[t] = IF manager.initialized THEN "done" ELSE "set"]
    /\ UNCHANGED <<variant, env, storeVars, routerVars>>

\* __init__: self.db_path = Path(db_path); self._initialized = True
DmInitSet(t) ==
    /\ manager.at[t] = "set"
    /\ manager' = [manager EXCEPT !.initialized = TRUE, !.inits = @ + 1, !.at[t] = "ensure"]
    /\ UNCHANGED <<variant, env, storeVars, routerVars>>

\* __init__: self._ensure_database_exists() returns, or raises when the download fails
EnsureDatabaseExists(t) ==
    /\ manager.at[t] = "ensure"
    /\ \E out \in {"done", "raised"} :
          manager' = [manager EXCEPT !.ensures = @ + 1, !.at[t] = out]
    /\ UNCHANGED <<variant, env, storeVars, routerVars>>

InitManager ==
    /\ variant = "agent_nodes"
    /\ env = MainEnv
    /\ manager = NoManager
    /\ Invoice = InitInvoice
    /\ InvoiceLine = InitInvoiceLine
    /\ conn = [c \in ConnIds |-> NoConn]
    /\ pool = <<>>
    /\ call = [t \in Threads |-> IdleCall]
    /\ faults = 0
    /\ refunded = {}
    /\ pc = "idle"
    /\ st = State(<<>>)
    /\ tasks = {}
    /\ writes = <<>>
    /\ history = <<>>
    /\ reply = NoReply
    /\ turn = 0
    /\ seen = {}
    /\ trace = NoTrace

NextManager ==
    \/ \E t \in Constructors : DmNew(t)
    \/ \E t \in Constructors : DmInit(t)
    \/ \E t \in Constructors : DmInitSet(t)
    \/ \E t \in Constructors : EnsureDatabaseExists(t)

SpecManager == InitManager /\ [][NextManager]_vars

-----------------------------------------------------------------------------
(* The session: one chat session of one of the two applications *)

InitStore ==
    /\ manager = ManagerImported
    /\ Invoice = InitInvoice
    /\ InvoiceLine = InitInvoiceLine
    /\ conn = [c \in ConnIds |-> NoConn]
    /\ pool = <<>>
    /\ call = [t \in Threads |-> IdleCall]
    /\ faults = 0
    /\ refunded = {}

InitRouter ==
    /\ pc = "idle"
    /\ st = State(<<>>)
    /\ tasks = {}
    /\ writes = <<>>
    /\ history = <<>>
    /\ reply = NoReply
    /\ turn = 0
    /\ seen = {}
    /\ trace = NoTrace

Init ==
    /\ variant \in {"agent_nodes", "main"}
    /\ env \in {MainEnv, EvalEnv}
    /\ InitStore
    /\ InitRouter

Gateway == \E t \in Threads : GatewayStep(t) /\ UNCHANGED routerVars

-----------------------------------------------------------------------------
(* The gateways driven directly: threads call refund and lookup concurrently *)

\* an invoice, a line of it, both; the last one simulated
RefundArgs ==
    {[inv |-> Some(1), lids |-> None,      mock |-> FALSE],
     [inv |-> None,    lids |-> Some({1}), mock |-> FALSE],
     [inv |-> Some(1), lids |-> Some({1}), mock |-> FALSE],
     [inv |-> Some(1), lids |-> Some({1}), mock |-> TRUE]}

\* every call record carries the number of calls started so far
CallsMade == call[1].n

LookupArgSet ==
    {[NoCrit EXCEPT !.first = Some(Ann), !.last = Some(Li), !.phone = Some(Phone55)]}

\* thread t, its last call over, starts call c; a call is solo when no other call
\* has run beside it
Begin(t, c) ==
    [o \in Threads |->
        IF o = t THEN [c EXCEPT !.solo = \A x \in Threads \ {t} : call[x].status # "running",
                                !.n = CallsMade + 1]
        ELSE [call[o] EXCEPT !.solo = @ /\ call[o].status # "running", !.n = CallsMade + 1]]

CallRefund(t) ==
    /\ call[t].status # "running" /\ CallsMade < MaxCalls
    /\ \E a \in RefundArgs :
          call' = Begin(t, IF variant = "agent_nodes"
                              THEN RefundCallPool(a.inv, a.lids, a.mock)
                              ELSE RefundCallOwn(a.inv, a.lids, a.mock))
    /\ UNCHANGED <<variant, env, manager, Invoice, InvoiceLine, conn, pool, faults, refunded, routerVars>>

CallLookup(t) ==
    /\ call[t].status # "running" /\ CallsMade < MaxCalls
    /\ \E cr \in LookupArgSet :
          call' = Begin(t, IF variant = "agent_nodes" THEN LookupCallPool(cr)
                              ELSE LookupCallOwn(cr))
    /\ UNCHANGED <<variant, env, manager, Invoice, InvoiceLine, conn, pool, faults, refunded, routerVars>>

NextStore ==
    \/ \E t \in Threads : CallRefund(t)
    \/ \E t \in Threads : CallLookup(t)
    \/ Gateway

\* the callers pass mock themselves; the config plays no part
InitCalls == Init /\ env = MainEnv

SpecStore == InitCalls /\ [][NextStore]_vars

-----------------------------------------------------------------------------
(* gather_info as a node: run once on any state of the graph *)

InitNode ==
    /\ variant \in {"agent_nodes", "main"}
    /\ env = MainEnv
    /\ InitStore
    /\ pc = IF variant = "agent_nodes" THEN "gather_info" ELSE "refund_agent"
    /\ \E v \in Extractions, cls \in TextClasses :
          st = [State(<<Msg("user", UserText(cls))>>) EXCEPT !.f = v]
    /\ tasks = {}
    /\ writes = <<>>
    /\ history = <<"user">>
    /\ reply = [NoReply EXCEPT !.status = "running"]
    /\ turn = 1
    /\ seen = {}
    /\ trace = NoTrace

NextNode ==
    \/ GatherInfoNode
    \/ GatherInfoAction

SpecNode == InitNode /\ [][NextNode]_vars

Next ==
    \/ UserMessage
    \/ RouteRequest
    \/ GatherInfoNode
    \/ ProcessRefund
    \/ ProcessRefundReturn
    \/ ProcessLookupNode
    \/ ProcessMusicQuery
    \/ DefaultResponseNode
    \/ ProcessMessageReturn
    \/ IntentClassifierNode
    \/ GatherInfoAction
    \/ RefundActionCall
    \/ RefundActionReturn
    \/ LookupActionCall
    \/ LookupActionReturn
    \/ SuperstepEnd
    \/ QaAgent
    \/ CompileFollowupNode
    \/ MainReturn
    \/ MainRaise
    \/ Gateway

Spec == Init /\ [][Next]_vars

-----------------------------------------------------------------------------
(* The pool driven on its own: MaxThreads threads, each inside one call of   *)
(* db_operations.lookup (one SELECT, one execute_query)                      *)

PoolThreads == 1..MaxThreads

InitPool ==
    /\ variant = "agent_nodes"
    /\ env = MainEnv
    /\ manager = ManagerImported
    /\ Invoice = InitInvoice
    /\ InvoiceLine = InitInvoiceLine
    /\ conn = [c \in PoolThreads |-> NoConn]
    /\ pool = <<>>
    /\ faults = 0
    /\ refunded = {}
    /\ call = [t \in PoolThreads |-> LookupCallPool(NoCrit)]
    /\ InitRouter

\* the threads are alike: they are numbered in the order in which they enter
\* get_connection
Entered(t) == call[t].status # "running" \/ call[t].phase = "run"

NextPool ==
    \/ \E t \in PoolThreads : /\ \A u \in 1..(t - 1) : Entered(u)
                              /\ GetConnection(t) /\ UNCHANGED routerVars
    \/ \E t \in PoolThreads : ExecuteQuery(t) /\ UNCHANGED routerVars
    \/ \E t \in PoolThreads : ExecuteQueryFault(t) /\ UNCHANGED routerVars

SpecPool == InitPool /\ [][NextPool]_vars

-----------------------------------------------------------------------------
(* Properties *)

\* C1: when a turn has completed, the reply is a non-null string and the message
\* history ends with an assistant entry, whatever the classifier, the extractor and
\* the store did (turns answered by the question-answering agent are left aside)
ReplyAfterEveryTurn ==
    (/\ pc = "idle" /\ turn > 0
     /\ \A i \in 1..Len(trace.nodes) : trace.nodes[i] # "qa_agent") =>
        /\ reply.status = "returned"
        /\ reply.v # None
        /\ history # <<>> /\ history[Len(history)] = "assistant"

\* C2: gather_info keeps the prior value of a field that is non-null in the state it
\* runs on when the extractor returns null for that field
MergeIsMonotonic ==
    [][(trace.decision = "none" /\ trace'.decision # "none") =>
          \A k \in FieldNames :
              (st.f[k] # None /\ trace'.parsed[k] = None) => st'.f[k] = st.f[k]]_vars

\* C3: the state the router starts a turn with holds the fields extracted in the earlier
\* turns of the session and the message history accumulated so far
EarlierTurnsVisible ==
    pc = "route" =>
        /\ \A k \in seen : st.f[k] # None
        /\ Len(st.messages) = Len(history)

\* C4: when the extraction holds an invoice id or invoice line ids (a value that is not
\* empty), gather_info selects the refund step, also when first name, last name and
\* phone are all present
RefundTakesPriority ==
    (/\ trace.decision \notin {"none", "error"}
     /\ \E k \in TargetFields : Truthy(k, trace.parsed[k]))
        => trace.decision \in {"process_refund", "refund_action"}

\* C4 witness: gather_info selected the refund step on an extraction that holds an
\* invoice id and the complete identity triple
RefundChosenOverLookup ==
    /\ trace.decision \in {"process_refund", "refund_action"}
    /\ Truthy("invoice_id", trace.parsed["invoice_id"])
    /\ \A k \in IdentityFields : Truthy(k, trace.parsed[k])

\* C5: when the extraction holds neither invoice id nor line ids and holds first name,
\* last name and phone, gather_info selects the lookup step
LookupWhenTripleComplete ==
    (/\ trace.decision \notin {"none", "error"}
     /\ \A k \in TargetFields : ~Truthy(k, trace.parsed[k])
     /\ \A k \in IdentityFields : Truthy(k, trace.parsed[k]))
        => trace.decision \in {"process_lookup", "lookup_action"}

\* C6: on the refund branch with no refund target and an incomplete identity triple, the
\* lookup gateway is not called during the turn
NoLookupOnIncompleteTriple ==
    (/\ trace.decision # "none"
     /\ \A k \in TargetFields : ~Truthy(k, st.f[k])
     /\ MissingFields(st) # {})
        => /\ trace.lookups = {}
           /\ \A t \in Threads : call[t].op # "lookup"

\* C7: when the refund branch ends asking for more information (no refund target, identity
\* triple incomplete), the reply names exactly the identity fields that are missing
ReplyNamesMissingFields ==
    (/\ pc = "END"
     /\ trace.decision \in {"default_response", "END"}
     /\ \A k \in TargetFields : ~Truthy(k, st.f[k])
     /\ MissingFields(st) # {})
        => /\ st.followup # None
           /\ Val(st.followup).names = MissingFields(st)

\* C8: a refund step that runs with neither invoice id nor line ids issues no store query
\* and replies by asking for them
RefundWithoutTargetAsks ==
    (trace.refundRan /\ trace.refundAbsent) =>
        /\ trace.refundQueries = 0
        /\ trace.refundText.kind = "refund_ask"

\* C9: a purchase lookup that starts after a non-simulated refund of an invoice has
\* returned gives no row of that invoice, on whichever connection it runs
RefundedInvoiceAbsent ==
    \A t \in Threads :
        (call[t].op = "lookup" /\ call[t].status = "returned") =>
            \A r \in call[t].rows : InvoiceOfLine(r.invoice_line_id) \notin call[t].after

SimulatedRefundDeletesNothing ==
    env = EvalEnv =>
        /\ Invoice = InitInvoice /\ InvoiceLine = InitInvoiceLine
        /\ \A c \in ConnIds : conn[c].dInv = {} /\ conn[c].dLine = {}

\* C12: on the same store state and for the same target, a simulated refund returns the
\* amount a refund that deletes returns (both run with no other store call beside them)
SimulatedAmountEqualsReal ==
    \A t \in Threads, u \in Threads :
        (/\ call[t].op = "refund" /\ call[t].status = "returned" /\ call[t].solo
         /\ call[u].op = "refund" /\ call[u].status = "returned" /\ call[u].solo
         /\ call[t].mock /\ ~call[u].mock
         /\ call[t].inv = call[u].inv /\ call[t].lids = call[u].lids
         /\ call[t].preInvoice = call[u].preInvoice
         /\ call[t].preLine = call[u].preLine)
            => call[t].total = call[u].total

\* C13: when the classifier raises or answers outside its labels, the turn returns a
\* reply, and that reply is one fixed text: the same for every user message, and the one
\* a "hello" answer of the classifier gives
OneFallbackReply ==
    /\ (pc = "END" /\ trace.intent \in FailedIntents) => st.followup # None
    /\ \A x \in reply.fallbacks : \A y \in reply.fallbacks \cup reply.greetings : x = y

\* C14: when the extractor fails inside gather_info, the turn goes to the terminal state
\* with the apology as its reply: gather_info runs once, and neither the refund step nor
\* the lookup step runs in that turn.
ExtractorFailureEndsTurn ==
    trace.decision = "error" =>
        /\ Cardinality({i \in 1..Len(trace.nodes) : trace.nodes[i] = "gather_info"}) = 1
        /\ \A i \in 1..Len(trace.nodes) :
               trace.nodes[i] \notin {"process_refund", "process_lookup",
                                      "refund_action", "lookup_action"}
        /\ call[1].status = "idle" /\ call[2].status = "idle"
        /\ pc = "END" =>
               /\ st.followup # None
               /\ Val(st.followup).kind \in {"gather_error", "gather_trouble_name_phone"}

\* C15: a store error raised while the refund step or the lookup step is running is caught
\* inside the step: the step returns normally, with a reply appended to the messages and
\* followup set, and no exception leaves the node.
StoreErrorCaughtInStep ==
    /\ \A i \in 1..Len(writes) : writes[i].kind # "raised"
    /\ (pc = "END" /\ trace.refundText.kind \in {"refund_error", "raised"}) =>
           /\ st.followup = Some(trace.refundText)
           /\ st.messages[Len(st.messages)].content = trace.refundText

\* C16: when the store fails during the refund step, the reply is a generic apology that
\* does not depend on the error: the text of the error is not part of the reply.
ApologyHidesStoreError ==
    \A i \in 1..Len(st.messages) :
        st.messages[i].content.kind = "refund_error" => st.messages[i].content.err = ""

\* C17: when the lookup step runs with the identity triple present and the store holds
\* no purchase that matches the criteria, the reply is the "no purchases found" message,
\* not an empty table and not an error.
NoMatchSaysNoPurchases ==
    (/\ variant = "agent_nodes" /\ pc = "END"
     /\ trace.nodes[Len(trace.nodes)] = "process_lookup"
     /\ MissingFields(st) = {}
     /\ SelPurchasesLike(PoolView, ProcessLookupArgs(st)) = {})
        => Val(st.followup).kind = "no_purchases_found"

\* C18: a catalog query issues exactly one kind of store lookup in its turn, chosen by the
\* words of the query: the album lookup only when the text has "album", the artist lookup
\* only when it has "artist" or "by", and the track lookup only for any other text.
OneCatalogLookupByKeyword ==
    (/\ variant = "agent_nodes" /\ pc = "END"
     /\ trace.nodes[Len(trace.nodes)] = "process_music_query")
        => trace.catalog = IF st.messages[1].content.txt = "album" THEN {"album"}
                           ELSE {"track"}

\* C19: no operation inserts or updates a row: the Invoice and InvoiceLine tables, as
\* committed and as every open connection sees them, are subsets of their initial
\* contents, so every row that remains is a row of the initial store, unmodified.  (No
\* statement of the code names Customer, Track, Album or Artist in a write: they are the
\* fixed tables of the store.)
OnlyDeletions ==
    /\ Invoice \subseteq InitInvoice
    /\ InvoiceLine \subseteq InitInvoiceLine
    /\ \A c \in ConnIds : /\ ViewInvoice(conn[c]) \subseteq InitInvoice
                          /\ ViewInvoiceLine(conn[c]) \subseteq InitInvoiceLine

\* a refund has been committed that deleted a line and left its invoice in the store
LineDeletedInvoiceKept ==
    /\ InvoiceLine # InitInvoiceLine
    /\ \E r \in Invoice : \E l \in InitInvoiceLine \ InvoiceLine : l.InvoiceId = r.InvoiceId

\* C20: on the refund branch a turn runs at most one of the refund step and the lookup
\* step, and the one it runs is the one gather_info decided on: when gather_info decides
\* on the refund the lookup step does not run, when it decides on the lookup the refund
\* step does not run, and when it decides on neither, neither runs.  (Turns whose
\* extractor answered; its failure is the case of C14.)
OneStepAfterGatherInfo ==
    LET ran(step) == \E i \in 1..Len(trace.nodes) : trace.nodes[i] \in step
        RefundStep == {"process_refund", "refund_action"}
        LookupStep == {"process_lookup", "lookup_action"}
    IN  (pc # "idle" /\ trace.decision # "error") =>
            /\ ~(ran(RefundStep) /\ ran(LookupStep))
            /\ ran(RefundStep) => trace.decision \in RefundStep
            /\ ran(LookupStep) => trace.decision \in LookupStep

\* C21: a refund is all-or-nothing: when a statement of a refund raises, no deletion of
\* that refund is visible afterwards, in the committed tables or on any connection.
\* (Stated for the first gateway call of a run, so that every deletion is its own.)
FailedRefundLeavesNoDeletion ==
    \A t \in Threads :
        (CallsMade = 1 /\ call[t].op = "refund" /\ call[t].status = "raised") =>
            /\ Invoice = InitInvoice /\ InvoiceLine = InitInvoiceLine
            /\ \A c \in ConnIds : conn[c].dInv = {} /\ conn[c].dLine = {}

\* C22: refunds are not serialized per invoice: two real refunds of the same invoice can
\* both report a nonzero amount, and they do so only when they ran beside each other
\* (the read of the total in one came before the delete of the other); of two such
\* refunds that ran one after the other, the later one reports nothing.
BothNonzeroOnlyWhenOverlapping ==
    (/\ \A t \in Threads : /\ call[t].op = "refund" /\ call[t].status = "returned"
                           /\ ~call[t].mock /\ call[t].total > 0
     /\ call[1].inv # None /\ call[1].inv = call[2].inv)
        => \E t \in Threads : ~call[t].solo

\* both threads have returned from a real refund of the same invoice with an amount
BothRefundsReportNonzero ==
    /\ \A t \in Threads : /\ call[t].op = "refund" /\ call[t].status = "returned"
                          /\ ~call[t].mock /\ call[t].total > 0
    /\ call[1].inv # None /\ call[1].inv = call[2].inv

\* C23: the turn router has no cycle and no retry: while a turn runs every node has run
\* at most once (so the classifier and the extractor are called at most once), and the
\* turn goes on to END, it does not leave the router with an exception, whatever the
\* classifier, the extractor and the store do (turns answered by the question-answering
\* agent are left aside)
EachNodeOnceThenEnd ==
    pc # "idle" =>
        /\ \A i, j \in 1..Len(trace.nodes) : trace.nodes[i] = trace.nodes[j] => i = j
        /\ (\A i \in 1..Len(trace.nodes) : trace.nodes[i] # "qa_agent") => pc # "raised"

\* C24: a completed turn has added exactly one assistant message: at the end of the turn
\* the messages of the state hold one assistant entry after the user message, and its
\* content is the reply (followup) of the turn.
OneAssistantMessagePerTurn ==
    pc = "END" =>
        /\ Cardinality({i \in 1..Len(st.messages) : st.messages[i].role = "assistant"}) = 1
        /\ st.followup = Some(st.messages[Len(st.messages)].content)

\* C25: execute_query pairs get_connection with return_connection, whether the statement
\* succeeds or raises: a connection is open exactly when it is idle in the pool (once) or
\* in the hands of the one thread that is inside execute_query with it, so that once no
\* query is in flight no connection is held by a caller.
AcquirePairedWithReturn ==
    LET held(c) == {t \in DOMAIN call : /\ call[t].status = "running" /\ call[t].gw = "pool"
                                        /\ call[t].phase = "run" /\ call[t].c = c}
        idle(c) == {i \in 1..Len(pool) : pool[i] = c}
    IN  variant = "agent_nodes" =>
            \A c \in DOMAIN conn :
                /\ Cardinality(held(c)) + Cardinality(idle(c)) <= 1
                /\ conn[c].open <=> Cardinality(held(c)) + Cardinality(idle(c)) = 1

\* every query has finished, one of them with an exception, and connections are idle
AllQueriesOverOneRaised ==
    /\ \A t \in DOMAIN call : call[t].status \in {"returned", "raised"}
    /\ \E t \in DOMAIN call : call[t].status = "raised"
    /\ pool # <<>>

\* C26: under every interleaving of execute_query calls the idle pool never holds more
\* than MaxConnections connections: a connection returned while the pool is full is
\* closed and the pool is left as it is, and one returned while there is room becomes
\* the last idle connection of the pool.
PoolBoundedFullReturnCloses ==
    [][/\ Len(pool) <= MaxConnections /\ Len(pool') <= MaxConnections
       /\ \A t \in DOMAIN call :
              (/\ call[t].gw = "pool" /\ call[t].status = "running"
               /\ call[t].phase = "run" /\ call'[t].phase # "run") =>
                  IF Len(pool) = MaxConnections
                     THEN pool' = pool /\ ~conn'[call[t].c].open
                     ELSE pool' = Append(pool, call[t].c) /\ conn'[call[t].c].open]_vars

\* the pool is full, no query is in flight, and a connection that was open beside the
\* ones in the pool (it has a smaller number than one of them) is closed
PoolFullOneClosed ==
    /\ Len(pool) = MaxConnections
    /\ \A t \in DOMAIN call : call[t].status # "running"
    /\ \E c \in DOMAIN conn : ~conn[c].open /\ \E i \in 1..Len(pool) : pool[i] > c

\* C27: compile_followup sets followup only when it has not been set: run on a state
\* whose followup is a non-empty string it leaves that string, and otherwise followup
\* becomes the content of the last message; for main.compile_followup, on the states its
\* node runs on, and for agent_nodes.compile_followup, on every state with a message.
FollowupSetOnlyWhenUnset ==
    LET isSet(state) == state.followup # None /\ Val(state.followup).kind # "empty"
        expected(state) == IF isSet(state) THEN state.followup
                           ELSE Some(state.messages[Len(state.messages)].content)
    IN  /\ (variant = "main" /\ pc = "compile_followup" /\ st.messages # <<>>) =>
               CompileFollowup(st).followup = expected(st)
        /\ (variant = "agent_nodes" /\ st.messages # <<>>) =>
               CompileFollowupNodes(st).followup = expected(st)

\* C28: the lookup step hands every optional filter of the state (track, album, artist,
\* purchase date) to the store query, next to the identity triple: the criteria it
\* passes are the fields of the state, and when the state has a purchase date every
\* purchase these criteria select has that invoice date.
LookupPassesEveryFilter ==
    (/\ variant = "agent_nodes" /\ pc = "END"
     /\ trace.nodes[Len(trace.nodes)] = "process_lookup"
     /\ MissingFields(st) = {})
        => /\ ProcessLookupArgs(st) = LookupArgs(st)
           /\ Get(st, "purchase_date_iso_8601") # None =>
                  \A r \in SelPurchasesLike(PoolView, ProcessLookupArgs(st)) :
                      DateOf(r.purchase_date) = DateOf(Val(Get(st, "purchase_date_iso_8601")))

\* C29: when a real refund has returned an amount, its deletions are committed: the rows
\* it named are gone from the committed tables, and no connection idle in the pool
\* carries DELETEs that are not committed.
ReturnedRefundIsCommitted ==
    /\ \A i \in 1..Len(pool) : conn[pool[i]].dInv = {} /\ conn[pool[i]].dLine = {}
    /\ \A t \in DOMAIN call :
           (call[t].op = "refund" /\ call[t].status = "returned" /\ ~call[t].mock) =>
               /\ call[t].inv # None =>
                      /\ \A r \in Invoice : r.InvoiceId # Val(call[t].inv)
                      /\ \A l \in InvoiceLine : l.InvoiceId # Val(call[t].inv)
               /\ call[t].lids # None =>
                      \A l \in InvoiceLine : l.InvoiceLineId \notin Val(call[t].lids)

====
